---- MODULE Spec2Model ----
(***************************************************************************)
(* A model of is-thenable: the predicate isThenable (src/src/index.ts) and  *)
(* the JavaScript values it is applied to.  The heap holds the objects the  *)
(* test-suite builds (object literals, Object.create, Object.defineProperty,*)
(* Object.freeze / seal, getters with closure state, Proxy.revocable); a    *)
(* call of isThenable is one action.                                        *)
(***************************************************************************)
EXTENDS Naturals, FiniteSets, Sequences, TLC

VARIABLES heap,     \* object identity -> object record
          last,     \* the most recent call of isThenable: its argument, its outcome, what the
                    \* argument's `then` resolved to when it began, and whether it repeated
                    \* the call before it on an unchanged argument
          tick,     \* flips at every call of isThenable
          changed   \* an object reachable from last.value was modified since that call began

vars == <<heap, last, tick, changed>>

----------------------------------------------------------------------------
(* Bounds *)

\* the largest value the callCount of a counting getter (or trap) may reach
MaxCount == 2

----------------------------------------------------------------------------
(* Values *)

NoObj == "none"

\* Object.prototype; `() => {}`; a plain object; an object created from the
\* plain object or with a null prototype; a proxy whose target is the plain object
ObjectPrototype == "Object.prototype"
ArrowFn == "fn"
PlainObj == "proto"
ChildObj == "obj"
ProxyObj == "proxy"

Objs == {ObjectPrototype, ArrowFn, PlainObj, ChildObj, ProxyObj}

Null == [t |-> "null", x |-> "null"]
Undefined == [t |-> "undefined", x |-> "undefined"]
Prim(t, x) == [t |-> t, x |-> x]
Ref(o) == [t |-> "ref", x |-> o]

Numbers == {Prim("number", x) : x \in {"42", "NaN", "Infinity", "-0"}}
Primitives ==
    Numbers \cup {Prim("string", "hello"), Prim("boolean", "true"),
                  Prim("symbol", "Symbol(test)"), Prim("bigint", "42n")}

Values == {Null, Undefined} \cup Primitives \cup {Ref(o) : o \in Objs}

\* the values the tests store in a `then` member
NotCallableThen ==
    {Prim("string", "not a function"), Prim("number", "42"), Prim("boolean", "true"),
     Null, Undefined, Ref(PlainObj)}
CallableThen == Ref(ArrowFn)

\* the typeof operator
TypeOf(h, v) ==
    CASE v.t = "null" -> "object"
      [] v.t = "ref" -> IF h[v.x].callable THEN "function" ELSE "object"
      [] OTHER -> v.t

----------------------------------------------------------------------------
(* Properties and accessors *)

Absent ==
    [kind |-> "absent", value |-> Undefined, get |-> "none",
     enumerable |-> FALSE, writable |-> FALSE, configurable |-> FALSE]

DataSlot(v, e, w, c) ==
    [kind |-> "data", value |-> v, get |-> "none",
     enumerable |-> e, writable |-> w, configurable |-> c]

AccessorSlot(g, e, c) ==
    [kind |-> "accessor", value |-> Undefined, get |-> g,
     enumerable |-> e, writable |-> FALSE, configurable |-> c]

\* the completion of running getter (or get trap) g in the closure state of object record ob
RunGetter(g, ob) ==
    CASE g = "returnsFunction" -> [ok |-> TRUE, value |-> CallableThen, error |-> "none"]
      [] g = "throwsError" -> [ok |-> FALSE, value |-> Undefined, error |-> "Error"]
      [] g = "throwsTypeError" -> [ok |-> FALSE, value |-> Undefined, error |-> "TypeError"]
      [] g = "changesOnEachAccess" ->
            [ok |-> TRUE,
             value |-> IF ob.callCount + 1 = 1 THEN CallableThen
                       ELSE Prim("string", "not a function"),
             error |-> "none"]
      [] g = "functionSometimes" ->
            [ok |-> TRUE, value |-> IF ob.returnFunction THEN CallableThen ELSE Null,
             error |-> "none"]

\* the closure state of object record ob after getter (or get trap) g has run
AfterGetter(g, ob) ==
    CASE g = "changesOnEachAccess" -> [ob EXCEPT !.callCount = @ + 1]
      [] g = "functionSometimes" -> [ob EXCEPT !.returnFunction = ~@]
      [] OTHER -> ob

\* whether getter g may run once more within the bound
GetterInBound(g, ob) == g = "changesOnEachAccess" => ob.callCount < MaxCount

----------------------------------------------------------------------------
(* [[Get]] of the member `then` *)

RECURSIVE ObjGet(_, _)
\* value[then] for the object o: proxies first, then the own property, then the prototype
ObjGet(h, o) ==
    LET ob == h[o] IN
    IF ob.proxy = "revoked"
    THEN [ok |-> FALSE, value |-> Undefined, error |-> "TypeError", ran |-> NoObj, code |-> "none"]
    ELSE IF ob.proxy = "live"
    THEN IF ob.trap = "none"
         THEN ObjGet(h, ob.target)
         ELSE RunGetter(ob.trap, ob) @@ [ran |-> o, code |-> ob.trap]
    ELSE IF ob.then.kind = "data"
    THEN [ok |-> TRUE, value |-> ob.then.value, error |-> "none", ran |-> NoObj, code |-> "none"]
    ELSE IF ob.then.kind = "accessor"
    THEN RunGetter(ob.then.get, ob) @@ [ran |-> o, code |-> ob.then.get]
    ELSE IF ob.proto = NoObj
    THEN [ok |-> TRUE, value |-> Undefined, error |-> "none", ran |-> NoObj, code |-> "none"]
    ELSE ObjGet(h, ob.proto)

\* value['then'] for any value: null and undefined have no properties, a primitive is
\* read through its wrapper's prototype chain
Get(h, v) ==
    CASE v.t \in {"null", "undefined"} ->
            [ok |-> FALSE, value |-> Undefined, error |-> "TypeError", ran |-> NoObj, code |-> "none"]
      [] v.t = "ref" -> ObjGet(h, v.x)
      [] OTHER -> ObjGet(h, ObjectPrototype)

\* the heap after the read r: the getter or trap that ran has updated its closure state
AfterRead(h, r) ==
    IF r.ran = NoObj THEN h
    ELSE [h EXCEPT ![r.ran] = AfterGetter(r.code, h[r.ran])]

RECURSIVE Reach(_, _)
\* the objects a read of `then` on object o may consult: o, then a proxy's target or
\* the prototype chain
Reach(h, o) ==
    IF o = NoObj THEN {}
    ELSE {o} \cup (IF h[o].proxy # "none" THEN Reach(h, h[o].target) ELSE Reach(h, h[o].proto))

\* the objects that make up the value v (a primitive has none)
ReachOf(h, v) == IF v.t = "ref" THEN Reach(h, v.x) ELSE {}

----------------------------------------------------------------------------
(* isThenable, src/src/index.ts *)

Returned(b, n, h) == [completion |-> "return", result |-> b, reads |-> n, heap |-> h]
Thrown(n, h) == [completion |-> "throw", result |-> FALSE, reads |-> n, heap |-> h]

\* the null check narrowed to undefined alone
IsNullish_undefinedOnly(value) == value = Undefined

\* value === null || value === undefined
IsNullish(value) == value = Null \/ value = Undefined

\* the category check left out
IsPrimitiveCategory_off(h, value) == FALSE

\* typeof value !== 'object' && typeof value !== 'function'
IsPrimitiveCategory(h, value) ==
    TypeOf(h, value) # "object" /\ TypeOf(h, value) # "function"

\* Object.prototype.hasOwnProperty.call(value, 'then') && typeof value['then'] === 'function'
ReadAndClassify_ownOnly(h, value) ==
    LET r == Get(h, value)
        h1 == AfterRead(h, r)
    IN IF value.t = "ref" /\ h[value.x].proxy = "none" /\ h[value.x].then.kind = "absent"
       THEN Returned(FALSE, 0, h)
       ELSE IF r.ok THEN Returned(TypeOf(h1, r.value) = "function", 1, h1)
       ELSE Thrown(1, h1)

\* value['then'] != null in place of the typeof comparison
ReadAndClassify_notNull(h, value) ==
    LET r == Get(h, value)
        h1 == AfterRead(h, r)
    IN IF r.ok THEN Returned(r.value # Null /\ r.value # Undefined, 1, h1)
       ELSE Thrown(1, h1)

\* value['then'] && typeof value['then'] === 'function': a truthy member is read again
ReadAndClassify_twice(h, value) ==
    LET r1 == Get(h, value)
        h1 == AfterRead(h, r1)
        r2 == Get(h1, value)
        h2 == AfterRead(h1, r2)
    IN IF ~r1.ok THEN Thrown(1, h1)
       ELSE IF r1.value \in {Null, Undefined} THEN Returned(FALSE, 1, h1)
       ELSE IF r2.ok THEN Returned(TypeOf(h2, r2.value) = "function", 2, h2)
       ELSE Thrown(2, h2)

\* const then = value['then']; value['then'] = then; typeof then === 'function': the member
\* read is stored back on the candidate
ReadAndClassify_storesThen(h, value) ==
    LET r == Get(h, value)
        h1 == AfterRead(h, r)
        h2 == IF r.ok /\ value.t = "ref" /\ h1[value.x].proxy = "none"
                     /\ h1[value.x].then.kind = "absent"
              THEN [h1 EXCEPT ![value.x].then = DataSlot(r.value, TRUE, TRUE, TRUE)]
              ELSE h1
    IN IF r.ok THEN Returned(TypeOf(h2, r.value) = "function", 1, h2)
       ELSE Thrown(1, h1)

\* typeof value['then'] === 'function': one read, which may throw
ReadAndClassify(h, value) ==
    LET r == Get(h, value)
        h1 == AfterRead(h, r)
    IN IF r.ok THEN Returned(TypeOf(h1, r.value) = "function", 1, h1)
       ELSE Thrown(1, h1)

\* the read left outside any try block
Catch_rethrow(c) == c

\* try { ... } catch { return false }
Catch(c) ==
    IF c.completion = "throw" THEN [c EXCEPT !.completion = "return", !.result = FALSE]
    ELSE c

\* typeof value === 'object' && typeof value.then === 'function', unguarded
isThenable_naive(value, h) ==
    IF IsPrimitiveCategory(h, value) THEN Returned(FALSE, 0, h)
    ELSE ReadAndClassify(h, value)

\* the classification of an object remembered from the call before (a one-entry cache)
isThenable_memo(value, h) ==
    IF IsNullish(value) THEN Returned(FALSE, 0, h)
    ELSE IF IsPrimitiveCategory(h, value) THEN Returned(FALSE, 0, h)
    ELSE IF value = last.value THEN Returned(last.result, 0, h)
    ELSE Catch(ReadAndClassify(h, value))

isThenable(value, h) ==
    IF IsNullish(value) THEN Returned(FALSE, 0, h)
    ELSE IF IsPrimitiveCategory(h, value) THEN Returned(FALSE, 0, h)
    ELSE Catch(ReadAndClassify(h, value))

----------------------------------------------------------------------------
(* State *)

NoCall == [t |-> "none", x |-> "none"]

\* what value['then'] resolves to in heap h, as the language defines it
Member(h, v) ==
    LET r == Get(h, v) IN [ok |-> r.ok, value |-> r.value, error |-> r.error]

NewObject(callable, proto) ==
    [callable |-> callable, proto |-> proto, extensible |-> TRUE, then |-> Absent,
     proxy |-> "none", target |-> NoObj, trap |-> "none",
     callCount |-> 0, returnFunction |-> TRUE]

NewProxy(target, trap, callable) ==
    [callable |-> callable, proto |-> NoObj, extensible |-> TRUE, then |-> Absent,
     proxy |-> "live", target |-> target, trap |-> trap,
     callCount |-> 0, returnFunction |-> TRUE]

\* the objects a program creates besides the plain object: Object.create(plain) and
\* new Proxy(plain, {}); Object.create(null) and a proxy with a get trap returning a
\* function; a function and a proxy whose trap throws, or returns a function every other time
Programs ==
    {[callable |-> FALSE, proto |-> PlainObj, trap |-> "none"],
     [callable |-> FALSE, proto |-> NoObj, trap |-> "returnsFunction"],
     [callable |-> TRUE, proto |-> ObjectPrototype, trap |-> "throwsError"],
     [callable |-> TRUE, proto |-> ObjectPrototype, trap |-> "functionSometimes"]}

Init ==
    /\ \E s \in Programs :
         heap = [o \in Objs |->
                   CASE o = ObjectPrototype -> NewObject(FALSE, NoObj)
                     [] o = ArrowFn -> NewObject(TRUE, ObjectPrototype)
                     [] o = PlainObj -> NewObject(FALSE, ObjectPrototype)
                     [] o = ChildObj -> NewObject(s.callable, s.proto)
                     [] o = ProxyObj -> NewProxy(PlainObj, s.trap, FALSE)]
    /\ last = [value |-> NoCall, completion |-> "return", result |-> FALSE, reads |-> 0,
               member |-> [ok |-> TRUE, value |-> Undefined, error |-> "none"],
               again |-> FALSE]
    /\ tick = FALSE
    /\ changed = FALSE

\* an operation of the caller's program on object o
Touch(o) ==
    /\ changed' = (changed \/ o \in ReachOf(heap, last.value))
    /\ UNCHANGED <<last, tick>>

\* { then: v }, or o.then = v on an object without the member
LiteralThen(o, v) ==
    /\ heap[o].proxy = "none"
    /\ heap[o].then.kind = "absent"
    /\ heap' = [heap EXCEPT ![o].then = DataSlot(v, TRUE, TRUE, TRUE)]
    /\ Touch(o)

\* { get then() { ... } }
GetterThen(o, g) ==
    /\ heap[o].proxy = "none"
    /\ heap[o].then.kind = "absent"
    /\ heap' = [heap EXCEPT ![o].then = AccessorSlot(g, TRUE, TRUE)]
    /\ Touch(o)

\* Object.defineProperty(o, 'then', { value: () => {}, enumerable: e, writable: w, configurable: c })
DefineThenValue(o, e, w, c) ==
    /\ heap[o].proxy = "none"
    /\ heap[o].then.kind = "absent"
    /\ heap' = [heap EXCEPT ![o].then = DataSlot(CallableThen, e, w, c)]
    /\ Touch(o)

\* Object.defineProperty(o, 'then', { get() { throw ... }, configurable: true })
DefineThenGetter(o, g) ==
    /\ heap[o].proxy = "none"
    /\ heap[o].then.kind = "absent"
    /\ heap' = [heap EXCEPT ![o].then = AccessorSlot(g, FALSE, TRUE)]
    /\ Touch(o)

\* Object.freeze({ then: () => {} })
FreezeLiteral(o) ==
    /\ heap[o].proxy = "none"
    /\ heap[o].then.kind = "absent"
    /\ heap[o].extensible
    /\ heap' = [heap EXCEPT ![o].then = DataSlot(CallableThen, TRUE, FALSE, FALSE),
                             ![o].extensible = FALSE]
    /\ Touch(o)

\* Object.seal({ then: () => {} })
SealLiteral(o) ==
    /\ heap[o].proxy = "none"
    /\ heap[o].then.kind = "absent"
    /\ heap[o].extensible
    /\ heap' = [heap EXCEPT ![o].then = DataSlot(CallableThen, TRUE, TRUE, FALSE),
                             ![o].extensible = FALSE]
    /\ Touch(o)

\* revoke() of Proxy.revocable
Revoke(o) ==
    /\ heap[o].proxy = "live"
    /\ heap' = [heap EXCEPT ![o].proxy = "revoked"]
    /\ Touch(o)

\* isThenable(v)
Call(v) ==
    LET m == Get(heap, v)
        c == isThenable(v, heap)
    IN /\ m.ran # NoObj => GetterInBound(m.code, heap[m.ran])
       /\ heap' = c.heap
       /\ last' = [value |-> v, completion |-> c.completion, result |-> c.result,
                   reads |-> c.reads, member |-> Member(heap, v),
                   again |-> (v = last.value /\ ~changed)]
       /\ tick' = ~tick
       /\ changed' = (c.heap # heap)

Next ==
    \/ \E v \in NotCallableThen \cup {CallableThen} : LiteralThen(PlainObj, v)
    \/ \E o \in {ObjectPrototype, ChildObj} : LiteralThen(o, CallableThen)
    \/ \E g \in {"returnsFunction", "changesOnEachAccess", "functionSometimes"} :
         GetterThen(PlainObj, g)
    \/ \E e, w, c \in BOOLEAN : DefineThenValue(PlainObj, e, w, c)
    \/ \E g \in {"throwsError", "throwsTypeError"} : DefineThenGetter(PlainObj, g)
    \/ FreezeLiteral(PlainObj)
    \/ SealLiteral(PlainObj)
    \/ Revoke(ProxyObj)
    \/ \E v \in Values : Call(v)

Spec == Init /\ [][Next]_vars

----------------------------------------------------------------------------
(* Claims *)

ObjectLike(v) == v.t = "ref"

\* C1: isThenable never throws; when the read of `then` on an object-like or callable
\* value raises an error (a throwing getter, a throwing proxy trap, a revoked proxy) the
\* call returns false and no error escapes
C1_NeverThrows ==
    /\ last.completion = "return"
    /\ ObjectLike(last.value) /\ ~last.member.ok => last.result = FALSE

\* a call on the plain object whose `then` getter throws an Error has returned false
C1_Witness ==
    /\ last.value = Ref(PlainObj)
    /\ heap[PlainObj].then.get = "throwsError"
    /\ ~last.member.ok /\ last.member.error = "Error"
    /\ last.completion = "return" /\ last.result = FALSE

\* C2: an object-like or callable value whose `then`, own or inherited, is readable and
\* callable is classified true, whatever the property's attributes
C2_CallableThenIsTrue ==
    ObjectLike(last.value) /\ last.member.ok /\ TypeOf(heap, last.member.value) = "function"
        => last.completion = "return" /\ last.result = TRUE

\* a call on the child object, which inherits a non-enumerable, non-writable,
\* non-configurable callable `then` from the plain object, has returned true
C2_Witness ==
    /\ last.value = Ref(ChildObj)
    /\ ~changed
    /\ heap[ChildObj].then.kind = "absent"
    /\ heap[ChildObj].proto = PlainObj
    /\ heap[PlainObj].then = DataSlot(CallableThen, FALSE, FALSE, FALSE)
    /\ last.member.ok /\ last.member.value = CallableThen
    /\ last.result = TRUE

\* C3: an object-like or callable value whose `then` read yields a non-callable value
\* (an absent member included) is classified false; so is a function without `then`
C3_NonCallableThenIsFalse ==
    ObjectLike(last.value) /\ last.member.ok /\ TypeOf(heap, last.member.value) # "function"
        => last.completion = "return" /\ last.result = FALSE

\* a call on the plain object carrying then: 'not a function' has returned false
C3_Witness ==
    /\ last.value = Ref(PlainObj)
    /\ ~changed
    /\ heap[PlainObj].then.kind = "data"
    /\ heap[PlainObj].then.value = Prim("string", "not a function")
    /\ last.member.ok /\ last.member.value = Prim("string", "not a function")
    /\ last.result = FALSE

\* C4: null and undefined are classified false
C4_NullishIsFalse ==
    last.value \in {Null, Undefined} => last.completion = "return" /\ last.result = FALSE

\* a call on null has returned false
C4_Witness ==
    last.value = Null /\ last.completion = "return" /\ last.result = FALSE

\* C5: every primitive is classified false
C5_PrimitiveIsFalse ==
    last.value \in Primitives => last.completion = "return" /\ last.result = FALSE

\* a call on NaN has returned false although Object.prototype carries a callable `then`
C5_Witness ==
    /\ last.value = Prim("number", "NaN")
    /\ heap[ObjectPrototype].then.kind = "data"
    /\ last.member.ok /\ last.member.value = CallableThen
    /\ last.result = FALSE

\* a step of the model that is a call of isThenable
CallStep == tick' # tick

\* C6: a call on an object-like or callable value reads `then` exactly once and returns
\* the classification of the value that read observes, without retry or caching, also
\* when the accessor or trap answers differently on every read
C6_OneReadPerCall ==
    [][CallStep /\ ObjectLike(last'.value) =>
         LET r == Get(heap, last'.value) IN
            /\ last'.reads = 1
            /\ heap' = AfterRead(heap, r)
            /\ last'.completion = "return"
            /\ last'.result = (r.ok /\ TypeOf(heap, r.value) = "function")]_vars

\* the second call on the plain object whose getter returns a function on its first read
\* only: the getter has run twice, the call read once and returned false
C6_Witness ==
    /\ last.value = Ref(PlainObj)
    /\ heap[PlainObj].then.get = "changesOnEachAccess"
    /\ heap[PlainObj].callCount = 2
    /\ last.reads = 1
    /\ last.member.value = Prim("string", "not a function")
    /\ last.result = FALSE

\* C7: a call that repeats the call before it, on a value none of whose objects was
\* modified since that call began, returns the same result
C7_Idempotent ==
    [][CallStep /\ last'.value = last.value /\ ~changed =>
         last'.result = last.result /\ last'.completion = last.completion]_vars

\* a call on the child object has repeated the call before it on the unchanged child,
\* and returned true
C7_Witness ==
    /\ last.again
    /\ last.value = Ref(ChildObj)
    /\ last.result = TRUE

\* C8: a call changes no object, except that the getter or trap its read runs may update
\* that getter's own closure state; a call on null, undefined or a primitive changes nothing
C8_NoMutation ==
    [][CallStep =>
         LET r == Get(heap, last'.value) IN
            IF ObjectLike(last'.value) /\ r.ran # NoObj
            THEN /\ \A o \in Objs \ {r.ran} : heap'[o] = heap[o]
                 /\ [heap'[r.ran] EXCEPT !.callCount = heap[r.ran].callCount,
                                          !.returnFunction = heap[r.ran].returnFunction]
                       = heap[r.ran]
            ELSE heap' = heap]_vars

\* a call on the child object has run the alternating getter it inherits from the plain
\* object: the getter's flag is flipped, the call returned true
C8_Witness ==
    /\ last.value = Ref(ChildObj)
    /\ heap[ChildObj].then.kind = "absent"
    /\ heap[ChildObj].proto = PlainObj
    /\ heap[PlainObj].then.get = "functionSometimes"
    /\ ~heap[PlainObj].returnFunction
    /\ changed
    /\ last.result = TRUE

\* C9: a call on a revoked proxy returns false without an error, whatever its handler;
\* a call on a live proxy whose get trap returns a function returns true
C9_RevokedProxyIsFalse ==
    [][CallStep /\ ObjectLike(last'.value) =>
         LET p == heap[last'.value.x] IN
            /\ p.proxy = "revoked" => last'.completion = "return" /\ last'.result = FALSE
            /\ p.proxy = "live" /\ p.trap = "returnsFunction" =>
                  last'.completion = "return" /\ last'.result = TRUE]_vars

\* a call on the revoked proxy whose get trap returned a function: the read threw a
\* TypeError and the call returned false
C9_Witness ==
    /\ last.value = Ref(ProxyObj)
    /\ heap[ProxyObj].proxy = "revoked"
    /\ heap[ProxyObj].trap = "returnsFunction"
    /\ ~last.member.ok /\ last.member.error = "TypeError"
    /\ last.completion = "return" /\ last.result = FALSE

\* C10: `then` is read only on object-like or callable values; null, undefined and the
\* primitives are classified false without any read
C10_NoReadOnNonObjects ==
    /\ last.value \in {Null, Undefined} \cup Primitives =>
          last.reads = 0 /\ last.completion = "return" /\ last.result = FALSE
    /\ last.reads > 0 => ObjectLike(last.value)

\* a call on a bigint has returned false without a read
C10_Witness ==
    /\ last.value = Prim("bigint", "42n")
    /\ last.reads = 0
    /\ last.result = FALSE


\* C11: with a `then` getter that yields a function on its first read only, or on every
\* other read, the k-th call is true exactly when the k-th read yields a function: each
\* call advances the getter by one read, so the first call is true and the second false
C11_FollowsEachRead ==
    [][CallStep /\ ObjectLike(last'.value) =>
         LET r == Get(heap, last'.value) IN
            /\ r.code = "changesOnEachAccess" =>
                  /\ heap'[r.ran].callCount = heap[r.ran].callCount + 1
                  /\ last'.result = (heap'[r.ran].callCount = 1)
            /\ r.code = "functionSometimes" =>
                  /\ heap'[r.ran].returnFunction = ~heap[r.ran].returnFunction
                  /\ last'.result = heap[r.ran].returnFunction]_vars

\* the second call on the plain object whose getter returns a function every other time:
\* the read yielded null, the getter is back in its first state, the call returned false
C11_Witness ==
    /\ last.value = Ref(PlainObj)
    /\ heap[PlainObj].then.get = "functionSometimes"
    /\ heap[PlainObj].returnFunction
    /\ last.member.ok /\ last.member.value = Null
    /\ last.reads = 1
    /\ last.result = FALSE

====
